---- MODULE Spec2Model ----
(***************************************************************************)
(* Two-thread file copy of source/main.c: thrd_read fills the single       *)
(* shared slot (thread_t.data / data_size), thrd_write drains it to the    *)
(* output file, and file_mtx with the condition variables can_read and     *)
(* can_write hands the slot back and forth.  main probes the input size,   *)
(* builds the thread_t, creates both threads and joins them.               *)
(*                                                                         *)
(* Every step below is one statement (or one library call) of main.c.      *)
(* print_console only touches the console and its own console_mtx, which   *)
(* is never held across a wait, so it is left out.                         *)
(***************************************************************************)
EXTENDS Integers, Sequences, FiniteSets, TLC

\* ---------------------------------------------------------------- bounds
\* Largest input file, in bytes.
MaxL == 5
\* The slot capacity the state machine runs with: BUFSIZE scaled down so
\* that a file of MaxL bytes spans several chunks and a remainder.
BufSize == 2

\* ----------------------------------------------------- program constants
\* #define BUFSIZE 0x800000
BUFSIZE == 8388608
\* thrd_success of the platform's threads.h, the value mtx_init and
\* cnd_init return when they succeed.
thrd_success == 0
\* thrd_error of the same header, returned when they fail.
thrd_error == 2
\* Marks storage returned by malloc and not yet written, and a return
\* value not yet produced; outside the byte values and the return codes.
Uninit == -99

VARIABLES
    \* ---- the environment
    infile,        \* content of INFILE (a sequence of bytes)
    inExists,      \* whether INFILE exists when main probes it
    outfile,       \* content of OUTFILE
    spurious,      \* whether cnd_wait may return without a signal
    \* ---- main
    mpc,           \* main's position
    inits,         \* what consoleInit / mtx_init / cnd_init returned
    file_size,     \* main's local file_size
    mainRet,       \* main's return value (Uninit until it returns)
    allocated,     \* thread_struct.data is malloc'ed and not yet freed
    created,       \* the threads thrd_create has started
    \* ---- thread_t thread_struct
    data,          \* the slot, BufSize bytes
    data_size,
    data_written,
    total_size,
    \* ---- file_mtx, can_read, can_write
    file_mtx,      \* the owner of file_mtx, or "none"
    can_read,      \* the threads blocked in cnd_wait(&can_read)
    can_write,     \* the threads blocked in cnd_wait(&can_write)
    \* ---- thrd_read
    rpc, rret,
    buf,           \* the reader's private buffer
    done, bufsize, \* the for loop's variables
    rpos,          \* file position of the input stream
    \* ---- thrd_write
    wpc, wret,
    \* ---- history (not read by the program)
    readChunks,    \* the chunks fread has produced, in order
    writtenChunks, \* the non-empty chunks handed to fwrite, in order
    published,     \* the values thrd_read has stored in data_size
    rShort,        \* an fread transferred fewer bytes than requested
    wShort,        \* an fwrite transferred fewer bytes than requested
    ropenFail,     \* fopen(INFILE) failed in thrd_read
    wopenFail      \* fopen(OUTFILE) failed in thrd_write

envv  == <<infile, inExists, spurious>>
mainv == <<mpc, inits, file_size, mainRet, allocated, created>>
slotv == <<data, data_size, data_written, total_size>>
syncv == <<file_mtx, can_read, can_write>>
rdv   == <<rpc, rret, buf, done, bufsize, rpos>>
wrv   == <<wpc, wret>>
histv == <<readChunks, writtenChunks, published, rShort, wShort,
           ropenFail, wopenFail>>
vars  == <<envv, outfile, mainv, slotv, syncv, rdv, wrv, histv>>

\* ---------------------------------------------------------------- helpers
Slots == 1..BufSize

\* A freshly malloc'ed region of BufSize bytes.
Malloc == [i \in Slots |-> Uninit]

\* Mutant of Memcpy: the copy stops one byte early.
Memcpy_short(dst, src, n) ==
    [i \in Slots |-> IF i < n THEN src[i] ELSE dst[i]]

\* memcpy(dst, src, n): the first n bytes of src over the first n of dst.
Memcpy(dst, src, n) == [i \in Slots |-> IF i <= n THEN src[i] ELSE dst[i]]

\* The first n bytes of a region, as a sequence.
Bytes(region, n) == [i \in 1..n |-> region[i]]

\* fread into dst of the n bytes at file positions pos+1 .. pos+n.
Fread(dst, file, pos, n) ==
    [i \in Slots |-> IF i <= n /\ pos + i <= Len(file) THEN file[pos + i]
                     ELSE dst[i]]

IsPrefix(s, t) == Len(s) <= Len(t) /\ SubSeq(t, 1, Len(s)) = s

RECURSIVE Sum(_)
Sum(s) == IF s = <<>> THEN 0 ELSE Head(s) + Sum(Tail(s))

\* get_file_size: 0 when the file cannot be opened, else its length.
get_file_size(exists, file) == IF ~exists THEN 0 ELSE Len(file)

\* Mutant of ReaderBufsize: the last chunk is not shortened.
ReaderBufsize_full(d, b, total) == b

\* The body of the for loop's first statement: the length of the chunk
\* that starts at offset d when the previous length was b.
ReaderBufsize(d, b, total) == IF d + b > total THEN total - d ELSE b

\* The lengths the for loop goes through from offset d on.
RECURSIVE ChunkLens(_, _, _)
ChunkLens(d, b, total) ==
    IF d < total
    THEN LET nb == ReaderBufsize(d, b, total)
         IN  <<nb>> \o ChunkLens(d + nb, nb, total)
    ELSE <<>>

\* init_app: each primitive's result is tested with "!", so a call that
\* returns thrd_success (0) sends init_app to "return false". The workers'
\* steps below give file_mtx, can_read and can_write the behaviour
\* threads.h specifies for these objects, whatever the calls returned.
init_app(r) ==
    /\ r.console
    /\ ~(r.file_mtx = 0)
    /\ ~(r.console_mtx = 0)
    /\ ~(r.can_read = 0)
    /\ ~(r.can_write = 0)

\* cnd_signal(&c): the waiter sets it can leave behind. It wakes one of
\* the threads blocked on c; with none blocked it does nothing.
cnd_signal(c) == IF c = {} THEN {c} ELSE {c \ {t} : t \in c}

\* What an initialisation call can return.
InitCodes == {thrd_success, thrd_error}
InitResults == [console : BOOLEAN, file_mtx : InitCodes,
                console_mtx : InitCodes, can_read : InitCodes,
                can_write : InitCodes]

\* ------------------------------------------------------------------ Init
Init ==
    /\ \E L \in 0..MaxL : infile = [i \in 1..L |-> i]
    /\ inExists \in BOOLEAN
    /\ (~inExists => infile = <<>>)
    /\ outfile \in {<<>>, <<0>>}
    /\ spurious \in BOOLEAN
    /\ mpc = "init"
    /\ inits = [console |-> FALSE, file_mtx |-> 0, console_mtx |-> 0,
                can_read |-> 0, can_write |-> 0]
    /\ file_size = 0
    /\ mainRet = Uninit
    /\ allocated = FALSE
    /\ created = {}
    /\ data = Malloc
    /\ data_size = 0
    /\ data_written = 0
    /\ total_size = 0
    /\ file_mtx = "none"
    /\ can_read = {}
    /\ can_write = {}
    /\ rpc = "none" /\ rret = Uninit
    /\ buf = Malloc
    /\ done = 0 /\ bufsize = BufSize /\ rpos = 0
    /\ wpc = "none" /\ wret = Uninit
    /\ readChunks = <<>>
    /\ writtenChunks = <<>>
    /\ published = <<>>
    /\ rShort = FALSE /\ wShort = FALSE
    /\ ropenFail = FALSE /\ wopenFail = FALSE

\* ------------------------------------------------------------------ main
\* if (!init_app()) goto jmp_exit;
M_init ==
    /\ mpc = "init"
    /\ \E r \in InitResults :
         /\ inits' = r
         /\ mpc' = IF init_app(r) THEN "probe" ELSE "exit"
    /\ UNCHANGED <<envv, outfile, file_size, mainRet, allocated, created,
                   slotv, syncv, rdv, wrv, histv>>

\* Mutant of M_probe: the size is not tested.
M_probe_nocheck ==
    /\ mpc = "probe"
    /\ file_size' = get_file_size(inExists, infile)
    /\ mpc' = "setup"
    /\ UNCHANGED <<envv, outfile, inits, mainRet, allocated, created,
                   slotv, syncv, rdv, wrv, histv>>

\* file_size = get_file_size(INFILE); if (!file_size) goto jmp_exit;
M_probe ==
    /\ mpc = "probe"
    /\ file_size' = get_file_size(inExists, infile)
    /\ mpc' = IF file_size' = 0 THEN "exit" ELSE "setup"
    /\ UNCHANGED <<envv, outfile, inits, mainRet, allocated, created,
                   slotv, syncv, rdv, wrv, histv>>

\* thread_struct.data = malloc(BUFSIZE); data_size = 0; data_written = 0;
\* total_size = file_size;
M_setup ==
    /\ mpc = "setup"
    /\ data' = Malloc
    /\ allocated' = TRUE
    /\ data_size' = 0
    /\ data_written' = 0
    /\ total_size' = file_size
    /\ mpc' = "create_read"
    /\ UNCHANGED <<envv, outfile, inits, file_size, mainRet, created,
                   syncv, rdv, wrv, histv>>

\* thrd_create(&t_read, thrd_read, &thread_struct);
M_create_read ==
    /\ mpc = "create_read"
    /\ created' = created \cup {"reader"}
    /\ rpc' = "open"
    /\ mpc' = "create_write"
    /\ UNCHANGED <<envv, outfile, inits, file_size, mainRet, allocated,
                   slotv, syncv, rret, buf, done, bufsize, rpos, wrv, histv>>

\* thrd_create(&t_write, thrd_write, &thread_struct);
M_create_write ==
    /\ mpc = "create_write"
    /\ created' = created \cup {"writer"}
    /\ wpc' = "open"
    /\ mpc' = "join_read"
    /\ UNCHANGED <<envv, outfile, inits, file_size, mainRet, allocated,
                   slotv, syncv, rdv, wret, histv>>

\* thrd_join(t_read, NULL);
M_join_read ==
    /\ mpc = "join_read"
    /\ rpc = "ret"
    /\ mpc' = "join_write"
    /\ UNCHANGED <<envv, outfile, inits, file_size, mainRet, allocated,
                   created, slotv, syncv, rdv, wrv, histv>>

\* thrd_join(t_write, NULL); free(thread_struct.data);
M_join_write ==
    /\ mpc = "join_write"
    /\ wpc = "ret"
    /\ allocated' = FALSE
    /\ mpc' = "exit"
    /\ UNCHANGED <<envv, outfile, inits, file_size, mainRet, created,
                   slotv, syncv, rdv, wrv, histv>>

\* jmp_exit: exit_app(); return 0;
M_exit ==
    /\ mpc = "exit"
    /\ mainRet' = 0
    /\ mpc' = "ret"
    /\ UNCHANGED <<envv, outfile, inits, file_size, allocated, created,
                   slotv, syncv, rdv, wrv, histv>>

main ==
    \/ M_init
    \/ M_probe
    \/ M_setup
    \/ M_create_read
    \/ M_create_write
    \/ M_join_read
    \/ M_join_write
    \/ M_exit

\* ------------------------------------------------------------- thrd_read
Rfix == <<envv, outfile, mainv>>

\* FILE *fp = fopen(INFILE, "rb"); if (!fp) return -1; buf = malloc(BUFSIZE);
R_open ==
    /\ rpc = "open"
    /\ \E ok \in BOOLEAN :
         IF ok
         THEN /\ rpc' = "loop"
              /\ buf' = Malloc
              /\ done' = 0 /\ bufsize' = BufSize /\ rpos' = 0
              /\ UNCHANGED <<rret, ropenFail>>
         ELSE /\ rpc' = "ret"
              /\ rret' = -1
              /\ ropenFail' = TRUE
              /\ UNCHANGED <<buf, done, bufsize, rpos>>
    /\ UNCHANGED <<Rfix, slotv, syncv, wrv, readChunks, writtenChunks,
                   published, rShort, wShort, wopenFail>>

\* for (...; done < t->total_size; ...) { if (done + bufsize > total_size)
\* bufsize = total_size - done; fread(buf, bufsize, 1, fp);
\* and, once the loop is over, free(buf); fclose(fp); return 0;
R_fread ==
    /\ rpc = "loop"
    /\ IF done < total_size
       THEN LET b == ReaderBufsize(done, bufsize, total_size) IN
            \E n \in 0..b :
              /\ bufsize' = b
              /\ buf' = Fread(buf, infile, rpos, n)
              /\ rpos' = rpos + n
              /\ rShort' = (rShort \/ n < b)
              /\ readChunks' = Append(readChunks, Bytes(buf', b))
              /\ rpc' = "lock"
              /\ UNCHANGED rret
       ELSE /\ rpc' = "ret"
            /\ rret' = 0
            /\ UNCHANGED <<buf, bufsize, rpos, rShort, readChunks>>
    /\ UNCHANGED <<Rfix, slotv, syncv, wrv, done, writtenChunks, published,
                   wShort, ropenFail, wopenFail>>

\* Mutant of R_lock: the reader goes on without waiting for file_mtx.
R_lock_noguard ==
    /\ rpc = "lock"
    /\ file_mtx' = "reader"
    /\ rpc' = "check"
    /\ UNCHANGED <<envv, outfile, mainv, slotv, can_read, can_write, rret,
                   buf, done, bufsize, rpos, wrv, histv>>

\* mtx_lock(&file_mtx);
R_lock ==
    /\ rpc = "lock"
    /\ file_mtx = "none"
    /\ file_mtx' = "reader"
    /\ rpc' = "check"
    /\ UNCHANGED <<Rfix, slotv, can_read, can_write, rret, buf, done,
                   bufsize, rpos, wrv, histv>>

\* if (t->data_size != 0) cnd_wait(&can_read, &file_mtx);
\* cnd_wait releases file_mtx and blocks the caller on can_read.
R_check ==
    /\ rpc = "check"
    /\ IF data_size # 0
       THEN /\ file_mtx' = "none"
            /\ can_read' = can_read \cup {"reader"}
            /\ rpc' = "wait"
       ELSE /\ rpc' = "memcpy"
            /\ UNCHANGED <<file_mtx, can_read>>
    /\ UNCHANGED <<Rfix, slotv, can_write, rret, buf, done, bufsize, rpos,
                   wrv, histv>>

\* cnd_wait returns: the reader was woken and holds file_mtx again.
R_wake ==
    /\ rpc = "wait"
    /\ "reader" \notin can_read
    /\ file_mtx = "none"
    /\ file_mtx' = "reader"
    /\ rpc' = "memcpy"
    /\ UNCHANGED <<Rfix, slotv, can_read, can_write, rret, buf, done,
                   bufsize, rpos, wrv, histv>>

\* memcpy(t->data, buf, bufsize);
R_memcpy ==
    /\ rpc = "memcpy"
    /\ data' = Memcpy(data, buf, bufsize)
    /\ rpc' = "publish"
    /\ UNCHANGED <<Rfix, data_size, data_written, total_size, syncv, rret,
                   buf, done, bufsize, rpos, wrv, histv>>

\* t->data_size = bufsize;
R_publish ==
    /\ rpc = "publish"
    /\ data_size' = bufsize
    /\ published' = Append(published, bufsize)
    /\ rpc' = "unlock"
    /\ UNCHANGED <<Rfix, data, data_written, total_size, syncv, rret, buf,
                   done, bufsize, rpos, wrv, readChunks, writtenChunks,
                   rShort, wShort, ropenFail, wopenFail>>

\* mtx_unlock(&file_mtx);
R_unlock ==
    /\ rpc = "unlock"
    /\ file_mtx' = "none"
    /\ rpc' = "signal"
    /\ UNCHANGED <<Rfix, slotv, can_read, can_write, rret, buf, done,
                   bufsize, rpos, wrv, histv>>

\* Mutant of R_signal: the reader does not signal can_write.
R_signal_none ==
    /\ rpc = "signal"
    /\ done' = done + bufsize
    /\ rpc' = "loop"
    /\ UNCHANGED <<envv, outfile, mainv, slotv, syncv, rret, buf, bufsize,
                   rpos, wrv, histv>>

\* cnd_signal(&can_write); then the loop's done += bufsize.
\* The signal wakes a thread blocked on can_write, if there is one.
R_signal ==
    /\ rpc = "signal"
    /\ can_write' \in cnd_signal(can_write)
    /\ done' = done + bufsize
    /\ rpc' = "loop"
    /\ UNCHANGED <<Rfix, slotv, file_mtx, can_read, rret, buf, bufsize,
                   rpos, wrv, histv>>

thrd_read ==
    \/ R_open
    \/ R_fread
    \/ R_lock
    \/ R_check
    \/ R_wake
    \/ R_memcpy
    \/ R_publish
    \/ R_unlock
    \/ R_signal

\* ------------------------------------------------------------ thrd_write
Wfix == <<envv, mainv>>

\* FILE *fp = fopen(OUTFILE, "wb"); if (!fp) return -1;
\* Opening with "wb" truncates the file.
W_open ==
    /\ wpc = "open"
    /\ \E ok \in BOOLEAN :
         IF ok
         THEN /\ wpc' = "loop"
              /\ outfile' = <<>>
              /\ UNCHANGED <<wret, wopenFail>>
         ELSE /\ wpc' = "ret"
              /\ wret' = -1
              /\ wopenFail' = TRUE
              /\ UNCHANGED outfile
    /\ UNCHANGED <<Wfix, slotv, syncv, rdv, readChunks, writtenChunks,
                   published, rShort, wShort, ropenFail>>

\* while (t->data_written < t->total_size)
\* and, once the loop is over, fclose(fp); return 0;
W_loop ==
    /\ wpc = "loop"
    /\ IF data_written < total_size
       THEN /\ wpc' = "lock"
            /\ UNCHANGED wret
       ELSE /\ wpc' = "ret"
            /\ wret' = 0
    /\ UNCHANGED <<Wfix, outfile, slotv, syncv, rdv, histv>>

\* mtx_lock(&file_mtx);
W_lock ==
    /\ wpc = "lock"
    /\ file_mtx = "none"
    /\ file_mtx' = "writer"
    /\ wpc' = "check"
    /\ UNCHANGED <<Wfix, outfile, slotv, can_read, can_write, rdv, wret,
                   histv>>

\* if (t->data_size == 0) cnd_wait(&can_write, &file_mtx);
W_check ==
    /\ wpc = "check"
    /\ IF data_size = 0
       THEN /\ file_mtx' = "none"
            /\ can_write' = can_write \cup {"writer"}
            /\ wpc' = "wait"
       ELSE /\ wpc' = "fwrite"
            /\ UNCHANGED <<file_mtx, can_write>>
    /\ UNCHANGED <<Wfix, outfile, slotv, can_read, rdv, wret, histv>>

\* Mutant of W_wake: cnd_wait returns without taking file_mtx back.
W_wake_nolock ==
    /\ wpc = "wait"
    /\ "writer" \notin can_write
    /\ wpc' = "fwrite"
    /\ UNCHANGED <<envv, mainv, outfile, slotv, syncv, rdv, wret, histv>>

\* cnd_wait returns: the writer was woken and holds file_mtx again.
W_wake ==
    /\ wpc = "wait"
    /\ "writer" \notin can_write
    /\ file_mtx = "none"
    /\ file_mtx' = "writer"
    /\ wpc' = "fwrite"
    /\ UNCHANGED <<Wfix, outfile, slotv, can_read, can_write, rdv, wret,
                   histv>>

\* fwrite(t->data, t->data_size, 1, fp);
W_fwrite ==
    /\ wpc = "fwrite"
    /\ \E n \in 0..data_size :
         /\ outfile' = outfile \o Bytes(data, n)
         /\ wShort' = (wShort \/ n < data_size)
    /\ writtenChunks' = IF data_size > 0
                        THEN Append(writtenChunks, Bytes(data, data_size))
                        ELSE writtenChunks
    /\ wpc' = "update"
    /\ UNCHANGED <<Wfix, slotv, syncv, rdv, wret, readChunks, published,
                   rShort, ropenFail, wopenFail>>

\* Mutant of W_update: data_written advances by the slot's capacity.
W_update_cap ==
    /\ wpc = "update"
    /\ data_written' = data_written + BufSize
    /\ data_size' = 0
    /\ wpc' = "unlock"
    /\ UNCHANGED <<envv, mainv, outfile, data, total_size, syncv, rdv, wret,
                   histv>>

\* t->data_written += t->data_size; t->data_size = 0;
W_update ==
    /\ wpc = "update"
    /\ data_written' = data_written + data_size
    /\ data_size' = 0
    /\ wpc' = "unlock"
    /\ UNCHANGED <<Wfix, outfile, data, total_size, syncv, rdv, wret, histv>>

\* mtx_unlock(&file_mtx);
W_unlock ==
    /\ wpc = "unlock"
    /\ file_mtx' = "none"
    /\ wpc' = "signal"
    /\ UNCHANGED <<Wfix, outfile, slotv, can_read, can_write, rdv, wret,
                   histv>>

\* Mutant of W_signal: the writer does not signal can_read.
W_signal_none ==
    /\ wpc = "signal"
    /\ wpc' = "loop"
    /\ UNCHANGED <<envv, mainv, outfile, slotv, syncv, rdv, wret, histv>>

\* cnd_signal(&can_read);
W_signal ==
    /\ wpc = "signal"
    /\ can_read' \in cnd_signal(can_read)
    /\ wpc' = "loop"
    /\ UNCHANGED <<Wfix, outfile, slotv, file_mtx, can_write, rdv, wret,
                   histv>>

thrd_write ==
    \/ W_open
    \/ W_loop
    \/ W_lock
    \/ W_check
    \/ W_wake
    \/ W_fwrite
    \/ W_update
    \/ W_unlock
    \/ W_signal

\* ------------------------------------------------------ spurious wake-up
\* cnd_wait is allowed to return without a cnd_signal: a blocked thread
\* leaves the condition variable's wait set on its own.
SpuriousWake ==
    /\ spurious
    /\ \/ /\ "reader" \in can_read
          /\ can_read' = can_read \ {"reader"}
          /\ UNCHANGED can_write
       \/ /\ "writer" \in can_write
          /\ can_write' = can_write \ {"writer"}
          /\ UNCHANGED can_read
    /\ UNCHANGED <<envv, outfile, mainv, slotv, file_mtx, rdv, wrv, histv>>

\* ---------------------------------------------------------- specification
Next == main \/ thrd_read \/ thrd_write \/ SpuriousWake

Spec == Init /\ [][Next]_vars

\* Both threads are scheduled preemptively and file_mtx is handed out
\* fairly: a step that is enabled again and again is eventually taken.
\* Nothing obliges a spurious wake-up to happen.
FairSpec ==
    /\ Spec
    /\ WF_vars(main)
    /\ SF_vars(thrd_read)
    /\ SF_vars(thrd_write)

\* ------------------------------------------------------ shared vocabulary
BothReturned == rpc = "ret" /\ wpc = "ret"

\* Normal I/O: both fopen calls succeeded and every fread / fwrite so far
\* transferred the full requested length.
NormalIO == ~ropenFail /\ ~wopenFail /\ ~rShort /\ ~wShort

\* ceil(L / C)
CeilDiv(L, C) == (L + C - 1) \div C

\* ------------------------------------------------------------------- C1
\* C1: for every total size L > 0, with all opens succeeding and every
\* fread / fwrite full, under fair scheduling of both threads and of the
\* mutex, once both workers are started both thrd_read and thrd_write
\* eventually return. Stated here for runs without spurious wake-ups, where
\* cnd_signal wakes at most one blocked thread and is otherwise lost.
C1_Termination ==
    (~spurious /\ created = {"reader", "writer"})
        ~> (~NormalIO \/ BothReturned)

\* ------------------------------------------------------------------- C2
\* C2: the non-empty chunks thrd_write has passed to fwrite are a prefix
\* of the chunks thrd_read has read from the source: nothing placed in the
\* slot is overwritten before it is written, and nothing is written twice.
\* Stated for normal I/O and no spurious wake-ups.
C2_OrderingNoLoss ==
    (NormalIO /\ ~spurious) => IsPrefix(writtenChunks, readChunks)

\* ------------------------------------------------------------------- C3
\* C3: in every state where both thrd_read and thrd_write have returned 0
\* with no I/O error, the bytes persisted in OUTFILE equal the source byte
\* for byte and data_written equals total_size.
C3_RoundTrip ==
    (BothReturned /\ rret = 0 /\ wret = 0 /\ NormalIO)
        => (outfile = infile /\ data_written = total_size)

\* A copy of three chunks, the last one a remainder, has completed.
C3_Witness ==
    /\ BothReturned /\ rret = 0 /\ wret = 0 /\ NormalIO
    /\ Len(writtenChunks) >= 3
    /\ Len(writtenChunks[Len(writtenChunks)]) < BufSize

\* ------------------------------------------------------------------- C4
\* The statements between mtx_lock and mtx_unlock, and those among them
\* that touch t->data or t->data_size.
RInCS == rpc \in {"check", "memcpy", "publish", "unlock"}
WInCS == wpc \in {"check", "fwrite", "update", "unlock"}
RAccess == rpc \in {"check", "memcpy", "publish"}
WAccess == wpc \in {"check", "fwrite", "update"}

\* Whoever can see a non-zero data_size sees a whole chunk in the slot.
SlotWhole ==
    (data_size # 0 /\ file_mtx # "reader")
        => \E i \in DOMAIN readChunks : readChunks[i] = Bytes(data, data_size)

\* C4: thrd_read and thrd_write are never both between mtx_lock and
\* mtx_unlock; every access to t->data or t->data_size is made by the
\* holder of file_mtx; data_size becomes non-zero only once the whole chunk
\* is in the slot, and becomes zero only once the whole chunk has been
\* handed to fwrite.
C4_MutualExclusion ==
    /\ [](/\ ~(RInCS /\ WInCS)
          /\ (RAccess => file_mtx = "reader")
          /\ (WAccess => file_mtx = "writer")
          /\ SlotWhole)
    /\ [][/\ (data_size = 0 /\ data_size' # 0)
               => /\ readChunks # <<>>
                  /\ Bytes(data', data_size') = readChunks[Len(readChunks)]
          /\ (data_size # 0 /\ data_size' = 0)
               => /\ writtenChunks # <<>>
                  /\ writtenChunks[Len(writtenChunks)]
                       = Bytes(data, data_size)]_vars

\* The reader is blocked in mtx_lock while the writer is inside its
\* critical section, about to drain a full slot.
C4_Witness == rpc = "lock" /\ wpc = "fwrite" /\ data_size # 0

\* ------------------------------------------------------------------- C5
\* C5: data_written never decreases from one step to the next, and it
\* never exceeds total_size.
C5_Monotonic ==
    /\ [](data_written <= total_size)
    /\ [][data_written' >= data_written]_vars

\* The writer has drained three chunks and data_written reached total_size.
C5_Witness ==
    /\ Len(writtenChunks) >= 3
    /\ data_written = total_size
    /\ wpc = "ret"

\* ------------------------------------------------------------------- C6
\* C6: when get_file_size(INFILE) returns 0, main goes from the probe to
\* exit_app: no thread is ever created and the shared buffer is never
\* allocated.
C6_SourceUnavailable ==
    get_file_size(inExists, infile) = 0
        => /\ created = {}
           /\ ~allocated
           /\ rpc = "none" /\ wpc = "none"
           /\ mpc \in {"init", "probe", "exit", "ret"}

\* main passed init_app, probed a missing source and has returned.
C6_Witness ==
    /\ init_app(inits)
    /\ ~inExists
    /\ mpc = "ret"

\* ------------------------------------------------------------------- C7
\* The copy ran to the end: both workers returned 0 and all total_size
\* bytes were written.
CopyCompleted ==
    /\ created = {"reader", "writer"}
    /\ rret = 0 /\ wret = 0
    /\ data_written = total_size

\* C7: main returns a success value (0) only when all total_size bytes
\* were written, and a non-zero value whenever the copy aborted early.
C7_ExitStatus == mpc = "ret" => (mainRet = 0 <=> CopyCompleted)

\* ------------------------------------------------------------------- C8
\* C8: if either worker ends with a fatal error (its fopen failed), the
\* other worker is not left blocked in cnd_wait: both eventually return,
\* so both thrd_join calls return.
C8_NoStranding ==
    (~spurious /\ created = {"reader", "writer"} /\ (ropenFail \/ wopenFail))
        ~> (BothReturned /\ mpc \in {"exit", "ret"})

\* ------------------------------------------------------------------- C9
\* C9: after an fread or an fwrite that transferred fewer bytes than
\* requested the worker has stopped with an error result, and data_written
\* never counts bytes that were not persisted.
C9_ShortFatal ==
    /\ rShort => (rpc = "ret" /\ rret # 0)
    /\ wShort => (wpc = "ret" /\ wret # 0)
    /\ data_written <= Len(outfile)

\* ------------------------------------------------------------------ C10
\* The lengths the claim expects for total size L and chunk size C.
ExpectedLens(L, C) ==
    LET n == CeilDiv(L, C)
    IN  [i \in 1..n |-> IF i < n THEN C ELSE L - (n - 1) * C]

\* C10: the lengths thrd_read publishes in data_size are ceil(L/C) values,
\* all C but the last, which is L - (n-1)*C, in 1..C; they sum to L. For
\* L = 20,000,000 and C = 8 MiB they are 8,388,608; 8,388,608; 3,222,784.
C10_Chunking ==
    /\ IsPrefix(published, ExpectedLens(total_size, BufSize))
    /\ IsPrefix(published, ChunkLens(0, BufSize, total_size))
    /\ \A i \in DOMAIN published : published[i] \in 1..BufSize
    /\ (rpc = "ret" /\ rret = 0)
          => /\ published = ExpectedLens(total_size, BufSize)
             /\ Sum(published) = total_size
    /\ ChunkLens(0, BUFSIZE, 20000000) = <<8388608, 8388608, 3222784>>
    /\ ChunkLens(0, BUFSIZE, BUFSIZE) = <<BUFSIZE>>
    /\ ChunkLens(0, BUFSIZE, BUFSIZE + 1) = <<BUFSIZE, 1>>

\* The reader has returned after publishing full chunks and a remainder.
C10_Witness ==
    /\ rpc = "ret" /\ rret = 0
    /\ Len(published) >= 3
    /\ published[Len(published)] < BufSize

\* ------------------------------------------------------------------ C11
\* C11: whenever thrd_read executes the memcpy into t->data and the store
\* to data_size that follows it, data_size is 0: the reader never fills a
\* slot that still holds an unconsumed chunk. Stated for runs without
\* spurious wake-ups.
C11_ReaderFillsEmptySlot ==
    ~spurious => (rpc \in {"memcpy", "publish"} => data_size = 0)

\* ------------------------------------------------------------------ C12
\* C12: whenever thrd_write executes fwrite and the data_written /
\* data_size update, data_size > 0: the writer never makes a zero-length
\* drain pass. Stated for runs without spurious wake-ups.
C12_WriterDrainsFullSlot ==
    ~spurious => (wpc \in {"fwrite", "update"} => data_size > 0)

\* ------------------------------------------------------------------ C13
\* C13: when cnd_wait returns in a worker while its predicate is still
\* false (data_size # 0 for thrd_read, data_size = 0 for thrd_write), the
\* worker waits again instead of going on to the slot.
C13_WakeRechecked ==
    [][/\ (rpc = "wait" /\ rpc' # "wait" /\ data_size # 0)
            => rpc' \in {"check", "wait"}
       /\ (wpc = "wait" /\ wpc' # "wait" /\ data_size = 0)
            => wpc' \in {"check", "wait"}]_vars

\* ------------------------------------------------------------------ C14
\* C14 as stated: no worker performs its file transfer while it holds
\* file_mtx: not thrd_read its fread, not thrd_write its fwrite.
C14_IOOutsideLock ==
    /\ rpc = "loop" => file_mtx # "reader"
    /\ wpc = "fwrite" => file_mtx # "writer"

\* C14, amended: thrd_read never holds file_mtx when it calls fread, and
\* thrd_write always holds file_mtx when it calls fwrite; the lock is held
\* around the slot copy, the fwrite from the slot and the data_size /
\* data_written updates.
C14_IOLocking ==
    /\ rpc = "loop" => file_mtx # "reader"
    /\ wpc = "fwrite" => file_mtx = "writer"
    /\ file_mtx = "reader" => rpc \in {"check", "memcpy", "publish", "unlock"}
    /\ file_mtx = "writer" => wpc \in {"check", "fwrite", "update", "unlock"}

\* The writer is about to fwrite a full slot under the lock while the
\* reader, outside the lock, is about to fread the next chunk.
C14_Witness ==
    /\ wpc = "fwrite" /\ data_size > 0 /\ file_mtx = "writer"
    /\ rpc = "loop" /\ done < total_size

\* ------------------------------------------------------------------ C15
\* C15: every read and every write of data_written by a worker, the read
\* in thrd_write's while condition included, is made by the holder of
\* file_mtx.
C15_WrittenUnderLock == wpc \in {"loop", "update"} => file_mtx = "writer"

\* ------------------------------------------------------------------ C16
\* The length of the chunk most recently copied into the slot: that of the
\* memcpy just made, or else the last length published.
LastCopiedLen ==
    IF rpc = "publish" THEN bufsize
    ELSE IF published = <<>> THEN 0
    ELSE published[Len(published)]

\* C16: data_size is 0 or the length of the chunk most recently copied
\* into the slot by thrd_read, and 0 <= data_size <= the slot's capacity,
\* so no memcpy into t->data and no fwrite from it exceeds the capacity.
\* Stated for normal I/O and no spurious wake-ups.
C16_SlotFill ==
    (NormalIO /\ ~spurious)
        => /\ data_size = 0 \/ data_size = LastCopiedLen
           /\ data_size \in 0..BufSize
           /\ bufsize \in 0..BufSize

\* ------------------------------------------------------------------ C17
\* The console and every mutex and condition variable initialised.
AllInitOk(r) ==
    /\ r.console
    /\ r.file_mtx = thrd_success
    /\ r.console_mtx = thrd_success
    /\ r.can_read = thrd_success
    /\ r.can_write = thrd_success

\* C17: main goes from init_app on to the size probe exactly when the
\* console and all four primitives initialised, success being the return
\* value thrd_success; when one of them failed no worker is started.
C17_InitGate ==
    /\ [](created # {} => AllInitOk(inits))
    /\ [][mpc = "init" => (mpc' = "probe" <=> AllInitOk(inits'))]_vars

\* ------------------------------------------------------------------ C18
\* Both workers are past their fopen, and both calls succeeded.
BothOpened ==
    /\ rpc \notin {"none", "open"} /\ ~ropenFail
    /\ wpc \notin {"none", "open"} /\ ~wopenFail

\* thrd_read is blocked in cnd_wait(&can_read), not yet signalled.
RBlocked == rpc = "wait" /\ "reader" \in can_read

\* thrd_write is blocked in cnd_wait(&can_write), not yet signalled.
WBlocked == wpc = "wait" /\ "writer" \in can_write

\* C18: with both files opened, full-length I/O, no spurious wake-ups and
\* fair scheduling, thrd_read eventually returns 0, also in executions in
\* which thrd_write never terminates; and while thrd_read is blocked in
\* cnd_wait(&can_read) the writer has not left its loop.
C18_ReaderFinishes ==
    /\ []((~spurious /\ ~wopenFail /\ RBlocked) => wpc # "ret")
    /\ (~spurious /\ BothOpened)
           ~> (rShort \/ wShort \/ (rpc = "ret" /\ rret = 0))

\* thrd_read has returned 0 while thrd_write, one chunk short, is blocked
\* for good in cnd_wait(&can_write).
C18_Witness ==
    /\ ~spurious /\ NormalIO
    /\ rpc = "ret" /\ rret = 0
    /\ WBlocked /\ data_written < total_size

\* ------------------------------------------------------------------ C19
\* C19: for 0 < L <= 2 * BUFSIZE, with both files opened, full-length I/O,
\* no spurious wake-ups and fair scheduling, every run ends with both
\* workers returned, data_written = total_size and the persisted bytes
\* equal to the source; no chunk is lost or reordered on the way.
C19_TwoChunksCorrect ==
    /\ []((~spurious /\ NormalIO /\ total_size <= 2 * BufSize)
             => /\ IsPrefix(writtenChunks, readChunks)
                /\ (BothReturned
                      => outfile = infile /\ data_written = total_size))
    /\ (~spurious /\ BothOpened /\ total_size <= 2 * BufSize)
           ~> (rShort \/ wShort
                 \/ (BothReturned /\ rret = 0 /\ wret = 0
                       /\ data_written = total_size /\ outfile = infile))

\* A copy of exactly two chunks has completed.
C19_Witness ==
    /\ ~spurious /\ NormalIO
    /\ BothReturned
    /\ Len(writtenChunks) = 2
    /\ outfile = infile

\* ------------------------------------------------------------------ C20
\* C20 as stated: without spurious wake-ups, if thrd_write is blocked in
\* cnd_wait(&can_write) while data_size > 0 then thrd_read is between its
\* mtx_unlock and its cnd_signal(&can_write), and if thrd_read is blocked
\* in cnd_wait(&can_read) while data_size = 0 then thrd_write is between
\* its mtx_unlock and its cnd_signal(&can_read).
C20_SignalAfterUnlock ==
    ~spurious
      => /\ (WBlocked /\ data_size > 0) => rpc = "signal"
         /\ (RBlocked /\ data_size = 0) => wpc = "signal"

\* C20, amended: in those two situations the peer is between its store to
\* data_size and its cnd_signal: it has changed the slot and has not yet
\* signalled, whether it still holds file_mtx or has just released it. No
\* worker waits on a condition that is already true without a signal still
\* to come.
C20_SignalStillToCome ==
    ~spurious
      => /\ (WBlocked /\ data_size > 0) => rpc \in {"unlock", "signal"}
         /\ (RBlocked /\ data_size = 0) => wpc \in {"unlock", "signal"}

\* The writer blocked on a slot the reader has filled and released, and
\* whose signal is still to come.
C20_Witness ==
    ~spurious /\ WBlocked /\ data_size > 0 /\ rpc = "signal"

====
